---- MODULE Spec2Model ----
(***************************************************************************)
(* Model of the to_be_free player movement pipeline: the Input Sampler     *)
(* (read_player_input, Update), the Velocity Resolver and the Integrator   *)
(* (compute_velocity_from_input, integrate_velocity, chained in            *)
(* FixedUpdate), the player spawn and the plugin registration; and of the *)
(* xtask binary that gates cargo build and cargo run on cargo test.        *)
(*                                                                         *)
(* Numbers.  f32 values are modelled as exact reals:                       *)
(*  - a Vec3 is a record [x, y, z, rad] standing for (x, y, z) / sqrt(rad) *)
(*    with integer x, y, z and rad in {1, 2, 3}; the zero vector has       *)
(*    rad = 1.  This is closed under normalising a sum of key units,       *)
(*    quarter-turn yaw rotations and integer scaling;                      *)
(*  - a translation maps each rad to an integer triple counted in units of *)
(*    1 / PosDen, so it is an exact element of Q(sqrt 2, sqrt 3)^3;        *)
(*  - time is counted in ticks of 1 / TicksPerSec seconds.                 *)
(***************************************************************************)
EXTENDS Integers, Sequences, FiniteSets, TLC

VARIABLES
    entities,    \* the ECS world: a sequence of entity records
    bindings,    \* Option<Res<PlayerKeybindings>>: {} or {mapping}
    held,        \* ButtonInput<KeyCode>: the set of pressed keys
    fixedDelta,  \* Time<Fixed>::delta, in ticks (0 until a step is latched)
    overstep,    \* Time<Fixed> accumulated, not yet consumed time, in ticks
    pc,          \* where the runner is
    chain,       \* index of the next system of the FixedUpdate chain
    elapsed,     \* total time fed to the fixed clock so far, in ticks
    fixedSteps,  \* number of fixed steps begun so far
    frameAcc,    \* overstep + delta at the start of the current render tick
    frameSteps,  \* fixed steps begun in the current render tick
    runs,        \* number of single system runs (run_system_once)
    last,        \* name of the last system that ran
    before,      \* entities as they were before the last system ran
    stepStart,   \* entities as they were when the current fixed step began
    args,        \* arguments of the last call that took any
    anchor,      \* clock and position when the player's MoveInput last changed
    override,    \* the host's last PlayerKeybindings insert and when it came
    xtask,       \* the xtask process: position, argv, cargo calls, exit code
    resolvedFrom, \* entities as the Velocity Resolver last read them
    shutdown,    \* the external shutdown signal has arrived
    sampled,     \* the keys the last run of Update found held
    unseen       \* changes of MoveInput by Update since the last fixed step

vars == <<entities, bindings, held, fixedDelta, overstep, pc, chain, elapsed,
          fixedSteps, frameAcc, frameSteps, runs, last, before, stepStart,
          args, anchor, override, xtask, resolvedFrom, shutdown, sampled,
          unseen>>

----------------------------------------------------------------------------
(* Bounds *)

MaxRuns == 2        \* single system runs on a drawn world
MaxElapsed == 10    \* ticks of wall-clock time fed to the application loop

----------------------------------------------------------------------------
(* Numbers and vectors *)

FixedHz == 60                  \* Time::<Fixed>::from_hz(60.0)
TicksPerSec == FixedHz * 4     \* the clock's resolution: four ticks a step
PosDen == FixedHz              \* resolution of a translation coordinate
FixedStep == TicksPerSec \div FixedHz

Rads == {1, 2, 3}

Vec(x, y, z) == [x |-> x, y |-> y, z |-> z, rad |-> 1]
VecRad(x, y, z, r) == [x |-> x, y |-> y, z |-> z, rad |-> r]
ZERO == Vec(0, 0, 0)

IsZero(v) == v.x = 0 /\ v.y = 0 /\ v.z = 0
Canon(v) == IF IsZero(v) THEN ZERO ELSE v

\* Vec3 + Vec3 for key sums (both operands are plain integer vectors).
VecAdd(a, b) == Vec(a.x + b.x, a.y + b.y, a.z + b.z)

\* (x^2 + y^2 + z^2) of the integer part; the squared length is this / rad.
Dot(v) == v.x * v.x + v.y * v.y + v.z * v.z

\* Vec3 * f32 for an integer factor.
VecScale(v, k) == Canon(VecRad(v.x * k, v.y * k, v.z * k, v.rad))

\* |v| = s for a non-negative integer s.
HasLength(v, s) == Dot(v) = s * s * v.rad

normalize_or_zero_identity(v) == v

\* Vec3::normalize_or_zero on an integer vector whose squared length is 0
\* or squarefree: v / sqrt(v.v), and zero stays zero.
normalize_or_zero(v) ==
    IF Dot(v) = 0 THEN ZERO ELSE VecRad(v.x, v.y, v.z, Dot(v))

\* Quat * Vec3 for a yaw of q quarter turns about +Y (q in 0..3):
\* one quarter turn sends (x, y, z) to (z, y, -x), so +X goes to -Z.
RECURSIVE Rotate(_, _)
Rotate(q, v) ==
    IF q = 0 THEN v
    ELSE Rotate(q - 1, VecRad(v.z, v.y, 0 - v.x, v.rad))

Origin == [r \in Rads |-> <<0, 0, 0>>]

\* The translation (x, y, z) / PosDen.
Translation(x, y, z) == [Origin EXCEPT ![1] = <<x, y, z>>]

\* translation + v * (dt ticks), exact.
Integrate(t, v, dt) ==
    [t EXCEPT ![v.rad] =
        << t[v.rad][1] + (v.x * dt * PosDen) \div TicksPerSec,
           t[v.rad][2] + (v.y * dt * PosDen) \div TicksPerSec,
           t[v.rad][3] + (v.z * dt * PosDen) \div TicksPerSec >>]

----------------------------------------------------------------------------
(* Keys and keybindings *)

Keys == {"KeyW", "KeyS", "KeyA", "KeyD", "Space", "ShiftLeft", "ArrowUp"}

PlayerKeybindings_default ==
    [forward |-> "KeyW", back |-> "KeyS", left |-> "KeyA", right |-> "KeyD",
     up |-> "Space", down |-> "ShiftLeft"]

\* tests::custom_bindings_are_respected: forward = ArrowUp instead of W.
RemappedBindings == [PlayerKeybindings_default EXCEPT !.forward = "ArrowUp"]

\* A remapping that binds one key (KeyD) to two actions, right and forward.
SharedKeyBindings == [PlayerKeybindings_default EXCEPT !.forward = "KeyD"]

BindingChoices ==
    {PlayerKeybindings_default, RemappedBindings, SharedKeyBindings}

ActionNames == {"right", "left", "up", "down", "forward", "back"}

\* The unit direction of a movement action (Bevy: +X right, +Y up, -Z forward).
ActionDir(a) ==
    CASE a = "right"   -> Vec(1, 0, 0)
      [] a = "left"    -> Vec(0 - 1, 0, 0)
      [] a = "up"      -> Vec(0, 1, 0)
      [] a = "down"    -> Vec(0, 0 - 1, 0)
      [] a = "forward" -> Vec(0, 0, 0 - 1)
      [] a = "back"    -> Vec(0, 0, 1)

KeyOf(b, a) ==
    CASE a = "right"   -> b.right
      [] a = "left"    -> b.left
      [] a = "up"      -> b.up
      [] a = "down"    -> b.down
      [] a = "forward" -> b.forward
      [] a = "back"    -> b.back

----------------------------------------------------------------------------
(* Entities *)

AllComps == {"Player", "MoveSpeed", "MoveInput", "Velocity", "Transform"}

Entity(comps, speed, input, velocity, translation, rotation) ==
    [comps |-> comps, speed |-> speed, input |-> input,
     velocity |-> velocity, translation |-> translation,
     rotation |-> rotation]

\* PlayerBundle::new giving every player the speed spawn_player asks for.
PlayerBundle_new_fixed_speed(spawn_translation, speed_units_per_sec) ==
    Entity(AllComps, 5, ZERO, ZERO, spawn_translation, 0)

\* PlayerBundle::new(spawn_translation, speed_units_per_sec).
PlayerBundle_new(spawn_translation, speed_units_per_sec) ==
    Entity(AllComps, speed_units_per_sec, ZERO, ZERO, spawn_translation, 0)

\* Query<..., With<Player>>: the entities that carry every queried component.
Matches(e, comps) == comps \subseteq e.comps

----------------------------------------------------------------------------
(* The systems, as functions of the world *)

\* KeyArm with the left arm adding +1 to x, as the right arm does.
KeyArm_left_adds(key, b) ==
    IF key = b.right THEN ActionDir("right")
    ELSE IF key = b.left THEN ActionDir("right")
    ELSE IF key = b.up THEN ActionDir("up")
    ELSE IF key = b.down THEN ActionDir("down")
    ELSE IF key = b.forward THEN ActionDir("forward")
    ELSE IF key = b.back THEN ActionDir("back")
    ELSE ZERO

\* KeyArm with every arm a separate `if`: a key bound to several actions
\* adds the unit of each of them.
KeyArm_all_arms(key, b) ==
    LET A(a) == IF key = KeyOf(b, a) THEN ActionDir(a) ELSE ZERO
    IN  VecAdd(VecAdd(VecAdd(A("right"), A("left")),
                      VecAdd(A("up"), A("down"))),
               VecAdd(A("forward"), A("back")))

\* One pass of the match in read_player_input for one pressed key: the first
\* arm whose guard holds adds its unit, any other key adds nothing.
KeyArm(key, b) ==
    IF key = b.right THEN ActionDir("right")
    ELSE IF key = b.left THEN ActionDir("left")
    ELSE IF key = b.up THEN ActionDir("up")
    ELSE IF key = b.down THEN ActionDir("down")
    ELSE IF key = b.forward THEN ActionDir("forward")
    ELSE IF key = b.back THEN ActionDir("back")
    ELSE ZERO

\* for key in keyboard.get_pressed() { match *key { ... } }
RECURSIVE SumPressed(_, _)
SumPressed(pressed, b) ==
    IF pressed = {} THEN ZERO
    ELSE LET key == CHOOSE k \in pressed : TRUE
         IN  VecAdd(KeyArm(key, b), SumPressed(pressed \ {key}, b))

\* The direction read_player_input writes when the bindings are present.
InputDir(pressed, b) == normalize_or_zero(SumPressed(pressed, b))

\* read_player_input falling back to the default bindings when the resource
\* is missing, instead of returning early.
read_player_input_or_default(ents, pressed, bnd) ==
    LET b == IF bnd = {} THEN PlayerKeybindings_default
             ELSE CHOOSE m \in bnd : TRUE
        dir == InputDir(pressed, b)
    IN  [i \in DOMAIN ents |->
            IF Matches(ents[i], {"Player", "MoveInput"})
            THEN [ents[i] EXCEPT !.input = dir]
            ELSE ents[i]]

\* read_player_input without the With<Player> filter.
read_player_input_any_entity(ents, pressed, bnd) ==
    IF bnd = {} THEN ents
    ELSE LET b == CHOOSE m \in bnd : TRUE
             dir == InputDir(pressed, b)
         IN  [i \in DOMAIN ents |->
                IF Matches(ents[i], {"MoveInput"})
                THEN [ents[i] EXCEPT !.input = dir]
                ELSE ents[i]]

\* read_player_input keeping the last direction when no key gives one.
read_player_input_sticky(ents, pressed, bnd) ==
    IF bnd = {} THEN ents
    ELSE LET b == CHOOSE m \in bnd : TRUE
             dir == InputDir(pressed, b)
         IN  [i \in DOMAIN ents |->
                IF Matches(ents[i], {"Player", "MoveInput"}) /\ dir # ZERO
                THEN [ents[i] EXCEPT !.input = dir]
                ELSE ents[i]]

\* read_player_input writing to the first player the query yields only.
read_player_input_first_only(ents, pressed, bnd) ==
    IF bnd = {} THEN ents
    ELSE LET b == CHOOSE m \in bnd : TRUE
             dir == InputDir(pressed, b)
             players == {i \in DOMAIN ents :
                            Matches(ents[i], {"Player", "MoveInput"})}
         IN  [i \in DOMAIN ents |->
                IF i \in players /\ \A j \in players : i <= j
                THEN [ents[i] EXCEPT !.input = dir]
                ELSE ents[i]]

read_player_input(ents, pressed, bnd) ==
    IF bnd = {} THEN ents
    ELSE LET b == CHOOSE m \in bnd : TRUE
             dir == InputDir(pressed, b)
         IN  [i \in DOMAIN ents |->
                IF Matches(ents[i], {"Player", "MoveInput"})
                THEN [ents[i] EXCEPT !.input = dir]
                ELSE ents[i]]

\* compute_velocity_from_input taking the MoveInput it reads: it leaves zero
\* behind.
compute_velocity_consuming_input(ents) ==
    [i \in DOMAIN ents |->
        IF Matches(ents[i], {"Player", "MoveInput", "MoveSpeed",
                             "Transform", "Velocity"})
        THEN LET world_dir == Rotate(ents[i].rotation, ents[i].input)
             IN  [ents[i] EXCEPT !.velocity =
                                    VecScale(world_dir, ents[i].speed),
                                 !.input = ZERO]
        ELSE ents[i]]

\* compute_velocity_from_input rotating by the inverse of the orientation.
compute_velocity_inverse_rotation(ents) ==
    [i \in DOMAIN ents |->
        IF Matches(ents[i], {"Player", "MoveInput", "MoveSpeed",
                             "Transform", "Velocity"})
        THEN LET world_dir ==
                    Rotate((4 - ents[i].rotation) % 4, ents[i].input)
             IN  [ents[i] EXCEPT !.velocity =
                                    VecScale(world_dir, ents[i].speed)]
        ELSE ents[i]]

\* compute_velocity_from_input adding to the Velocity it finds.
compute_velocity_accumulating(ents) ==
    [i \in DOMAIN ents |->
        IF Matches(ents[i], {"Player", "MoveInput", "MoveSpeed",
                             "Transform", "Velocity"})
        THEN LET world_dir == Rotate(ents[i].rotation, ents[i].input)
                 add == VecScale(world_dir, ents[i].speed)
                 old == ents[i].velocity
             IN  [ents[i] EXCEPT !.velocity =
                    Canon(VecRad(old.x + add.x, old.y + add.y,
                                 old.z + add.z, add.rad))]
        ELSE ents[i]]

compute_velocity_from_input(ents) ==
    [i \in DOMAIN ents |->
        IF Matches(ents[i], {"Player", "MoveInput", "MoveSpeed",
                             "Transform", "Velocity"})
        THEN LET world_dir == Rotate(ents[i].rotation, ents[i].input)
             IN  [ents[i] EXCEPT !.velocity =
                                    VecScale(world_dir, ents[i].speed)]
        ELSE ents[i]]

\* integrate_velocity stepping by the configured timestep, not by the delta
\* the clock reports.
integrate_velocity_by_timestep(ents, dt) ==
    [i \in DOMAIN ents |->
        IF Matches(ents[i], {"Player", "Velocity", "Transform"})
        THEN [ents[i] EXCEPT !.translation =
                                Integrate(ents[i].translation,
                                          ents[i].velocity, FixedStep)]
        ELSE ents[i]]

\* integrate_velocity assigning Velocity * dt instead of adding it.
integrate_velocity_assigning(ents, dt) ==
    [i \in DOMAIN ents |->
        IF Matches(ents[i], {"Player", "Velocity", "Transform"})
        THEN [ents[i] EXCEPT !.translation =
                                Integrate(Origin, ents[i].velocity, dt)]
        ELSE ents[i]]

integrate_velocity(ents, dt) ==
    [i \in DOMAIN ents |->
        IF Matches(ents[i], {"Player", "Velocity", "Transform"})
        THEN [ents[i] EXCEPT !.translation =
                                Integrate(ents[i].translation,
                                          ents[i].velocity, dt)]
        ELSE ents[i]]

\* spawn_player: one PlayerBundle::new(Vec3::new(0.0, 0.5, 0.0), 5.0).
spawn_player(ents) ==
    Append(ents, PlayerBundle_new(Translation(0, PosDen \div 2, 0), 5))

----------------------------------------------------------------------------
(* Single system runs on a drawn world (World::run_system_once) *)

SampleInputs == {ZERO, Vec(1, 0, 0), VecRad(1, 0, 0 - 1, 2), Vec(9, 9, 9)}
SampleSpeeds == {0, 5, 10}
SampleRotations == {0, 1, 2, 3}
SampleVelocities == {ZERO, Vec(6, 0, 0), Vec(100, 0, 0)}
SampleTranslations ==
    {Translation(0, 0, 0), Translation(PosDen, 2 * PosDen, 3 * PosDen)}

\* input.rs tests: a Player that carries a pre-seeded MoveInput only.
SeededPlayer(input) ==
    Entity({"Player", "MoveInput"}, 0, input, ZERO, Origin, 0)

\* Worlds for the Input Sampler.
InputWorlds ==
    { <<SeededPlayer(Vec(9, 9, 9))>>,
      <<SeededPlayer(ZERO), SeededPlayer(Vec(1, 0, 0))>>,
      <<PlayerBundle_new(Translation(PosDen, 2 * PosDen, 3 * PosDen), 5)>>,
      <<SeededPlayer(Vec(0, 0, 1)),
        Entity({"MoveInput"}, 0, Vec(0, 1, 0), ZERO, Origin, 0)>> }

\* Worlds with entities that lack the Player tag or a movement component:
\* the (Player, Velocity, Transform) entity of the integrate_velocity tests
\* beside an untagged entity with every component, and players that lack
\* the Transform, the Velocity or the MoveSpeed.
PartialWorlds ==
    { <<Entity({"Player", "Velocity", "Transform"}, 0, ZERO, Vec(6, 0, 0),
               Origin, 0),
        Entity(AllComps \ {"Player"}, 10, Vec(1, 0, 0), Vec(6, 0, 0),
               Origin, 1)>>,
      <<Entity(AllComps \ {"Transform"}, 10, Vec(1, 0, 0), Vec(6, 0, 0),
               Origin, 0),
        Entity(AllComps \ {"Velocity"}, 10, Vec(1, 0, 0), ZERO, Origin, 0),
        Entity(AllComps \ {"MoveSpeed"}, 0, Vec(1, 0, 0), Vec(6, 0, 0),
               Origin, 0)>> }

\* Worlds for the Velocity Resolver and the Integrator.
MovementWorlds ==
    { <<Entity(AllComps, s, i, v, t, q)>> :
        <<s, i, v, t, q>> \in SampleSpeeds \X SampleInputs \X SampleVelocities
                              \X SampleTranslations \X SampleRotations }
    \cup
    { <<Entity(AllComps, 10, i, ZERO, Origin, q),
        Entity(AllComps, 10, i, Vec(6, 0, 0), Origin, q)>> :
        <<i, q>> \in SampleInputs \X {0, 1} }
    \cup PartialWorlds

\* The clock and the position at which a span of constant MoveInput begins.
AnchorAt(e, o, n, t) ==
    [elapsed |-> e, overstep |-> o, steps |-> n, translation |-> t]

\* The xtask process before it is started.
XtaskIdle == [pc |-> "idle", argv |-> <<>>, calls |-> <<>>, exit |-> {}]

InitCommon ==
    /\ overstep = 0
    /\ chain = 0
    /\ elapsed = 0
    /\ fixedSteps = 0
    /\ frameAcc = 0
    /\ frameSteps = 0
    /\ runs = 0
    /\ last = "none"
    /\ before = entities
    /\ stepStart = entities
    /\ args = <<>>
    /\ anchor = AnchorAt(0, 0, 0, Origin)
    /\ override = {}
    /\ resolvedFrom = <<>>
    /\ shutdown = FALSE
    /\ sampled = {}
    /\ unseen = 0

InitUnit ==
    /\ pc = "unit"
    /\ \/ /\ entities \in InputWorlds
          /\ held \in SUBSET Keys
          /\ bindings \in {{}} \cup {{b} : b \in BindingChoices}
          /\ fixedDelta = 0
       \/ /\ entities \in MovementWorlds
          /\ held \in {{}, {"KeyW", "KeyD"}}
          /\ bindings = {PlayerKeybindings_default}
          /\ fixedDelta \in {0, FixedStep}
    /\ InitCommon
    /\ xtask = XtaskIdle

Ran(name, ents) ==
    /\ entities' = ents
    /\ before' = entities
    /\ last' = name
    /\ args' = <<>>

RunReadPlayerInput ==
    /\ pc = "unit"
    /\ runs < MaxRuns
    /\ Ran("read_player_input", read_player_input(entities, held, bindings))
    /\ runs' = runs + 1
    /\ UNCHANGED <<bindings, held, fixedDelta, overstep, pc, chain, elapsed,
                   fixedSteps, frameAcc, frameSteps, stepStart, anchor,
                   override, xtask,
                   resolvedFrom,
                   shutdown,
                   sampled, unseen>>

RunComputeVelocity ==
    /\ pc = "unit"
    /\ runs < MaxRuns
    /\ Ran("compute_velocity_from_input",
           compute_velocity_from_input(entities))
    /\ resolvedFrom' = entities
    /\ runs' = runs + 1
    /\ UNCHANGED <<bindings, held, fixedDelta, overstep, pc, chain, elapsed,
                   fixedSteps, frameAcc, frameSteps, stepStart, anchor,
                   override, xtask,
                   shutdown,
                   sampled, unseen>>

RunIntegrateVelocity ==
    /\ pc = "unit"
    /\ runs < MaxRuns
    /\ Ran("integrate_velocity", integrate_velocity(entities, fixedDelta))
    /\ runs' = runs + 1
    /\ UNCHANGED <<bindings, held, fixedDelta, overstep, pc, chain, elapsed,
                   fixedSteps, frameAcc, frameSteps, stepStart, anchor,
                   override, xtask,
                   resolvedFrom,
                   shutdown,
                   sampled, unseen>>

\* Positions and speeds a player is asked for: the test's, spawn_player's
\* and a player at the origin that cannot move.
SampleSpawns ==
    { <<Translation(PosDen, 2 * PosDen, 3 * PosDen), 10>>,
      <<Translation(0, PosDen \div 2, 0), 5>>,
      <<Origin, 0>> }

\* world.spawn(PlayerBundle::new(spawn, speed)) with a drawn position and speed.
RunPlayerBundleNew ==
    /\ pc = "unit"
    /\ runs < MaxRuns
    /\ \E request \in SampleSpawns :
        /\ entities' = Append(entities,
                              PlayerBundle_new(request[1], request[2]))
        /\ args' = request
    /\ before' = entities
    /\ last' = "PlayerBundle_new"
    /\ runs' = runs + 1
    /\ UNCHANGED <<bindings, held, fixedDelta, overstep, pc, chain, elapsed,
                   fixedSteps, frameAcc, frameSteps, stepStart, anchor,
                   override, xtask,
                   resolvedFrom,
                   shutdown,
                   sampled, unseen>>

NextUnit ==
    \/ RunReadPlayerInput
    \/ RunComputeVelocity
    \/ RunIntegrateVelocity
    \/ RunPlayerBundleNew

SpecUnit == InitUnit /\ [][NextUnit]_vars

----------------------------------------------------------------------------
(* The assembled application: build_app().run() *)

\* Durations of a render tick, in ticks of the clock.
Deltas == {0, 1, FixedStep, 2 * FixedStep + 1}

\* Key states the platform input layer reports at the start of a render tick.
HeldChoices ==
    { {}, {"KeyW"}, {"KeyW", "KeyD"}, {"KeyW", "KeyD", "Space"},
      {"ArrowUp", "KeyA"} }

\* FixedUpdate with the Velocity Resolver left out of the chain.
FixedUpdateChain_integrate_only ==
    <<"integrate_velocity">>

FixedUpdateChain_swapped ==
    <<"integrate_velocity", "compute_velocity_from_input">>

\* (compute_velocity_from_input, integrate_velocity).chain() in FixedUpdate.
FixedUpdateChain ==
    <<"compute_velocity_from_input", "integrate_velocity">>

Init ==
    /\ pc = "new"
    /\ entities = <<>>
    /\ bindings = {}
    /\ held = {}
    /\ fixedDelta = 0
    /\ InitCommon
    /\ xtask = XtaskIdle

\* The span of constant MoveInput a write to the world begins: a new one at
\* the current clock and position when the player's MoveInput differs from
\* what it was (or the player has just been spawned), the old one otherwise.
Anchored(old, new) ==
    LET ps == {i \in DOMAIN new : Matches(new[i], {"Player", "MoveInput"})}
    IN  IF \E i \in ps : i \notin DOMAIN old \/ old[i].input # new[i].input
        THEN LET i == CHOOSE j \in ps :
                          j \notin DOMAIN old \/ old[j].input # new[j].input
             IN  AnchorAt(elapsed, overstep, fixedSteps, new[i].translation)
        ELSE anchor

\* The mappings a host inserts in place of the default one.
HostChoices == {RemappedBindings}

\* The host inserts its own PlayerKeybindings before the loop starts.
HostInsertKeybindings ==
    /\ pc \in {"new", "app", "built"}
    /\ \E b \in HostChoices :
        /\ bindings' = {b}
        /\ override' = {[mapping |-> b, registered |-> (pc = "built")]}
    /\ UNCHANGED <<entities, held, fixedDelta, overstep, pc, chain, elapsed,
                   fixedSteps, frameAcc, frameSteps, runs, last, before,
                   stepStart, args, anchor, xtask,
                   resolvedFrom,
                   shutdown,
                   sampled, unseen>>

\* AppPlugin::build: Time::<Fixed>::from_hz(60.0) and the system sets.
AppPlugin_build ==
    /\ pc = "new"
    /\ fixedDelta' = 0
    /\ overstep' = 0
    /\ pc' = "app"
    /\ UNCHANGED <<entities, bindings, held, chain, elapsed, fixedSteps,
                   frameAcc, frameSteps, runs, last, before, stepStart,
                   args, anchor, override, xtask,
                   resolvedFrom,
                   shutdown,
                   sampled, unseen>>

\* PlayerPlugin::build registering its systems without inserting the
\* PlayerKeybindings resource.
PlayerPlugin_build_without_bindings ==
    /\ pc = "app"
    /\ pc' = "built"
    /\ UNCHANGED <<entities, bindings, held, fixedDelta, overstep, chain,
                   elapsed, fixedSteps, frameAcc, frameSteps, runs, last,
                   before, stepStart, args, anchor, override, xtask,
                   resolvedFrom,
                   shutdown,
                   sampled, unseen>>

\* PlayerPlugin::build: insert_resource(PlayerKeybindings::default()) and the
\* registration of spawn_player, read_player_input and the movement chain.
PlayerPlugin_build ==
    /\ pc = "app"
    /\ bindings' = {PlayerKeybindings_default}
    /\ pc' = "built"
    /\ UNCHANGED <<entities, held, fixedDelta, overstep, chain, elapsed,
                   fixedSteps, frameAcc, frameSteps, runs, last, before,
                   stepStart, args, anchor, override, xtask,
                   resolvedFrom,
                   shutdown,
                   sampled, unseen>>

\* App::run: the first update begins with the Startup schedule.
RunApp ==
    /\ pc = "built"
    /\ pc' = "startup"
    /\ UNCHANGED <<entities, bindings, held, fixedDelta, overstep, chain,
                   elapsed, fixedSteps, frameAcc, frameSteps, runs, last,
                   before, stepStart, args, anchor, override, xtask,
                   resolvedFrom,
                   shutdown,
                   sampled, unseen>>

\* Startup: spawn_player.
Startup ==
    /\ pc = "startup"
    /\ Ran("spawn_player", spawn_player(entities))
    /\ anchor' = Anchored(entities, spawn_player(entities))
    /\ pc' = "first"
    /\ UNCHANGED <<bindings, held, fixedDelta, overstep, chain, elapsed,
                   fixedSteps, frameAcc, frameSteps, runs, stepStart,
                   override, xtask,
                   resolvedFrom,
                   shutdown,
                   sampled, unseen>>

\* A render tick begins: the clock advances by the tick's duration, the key
\* state is refreshed and the duration is added to the fixed clock's overstep.
BeginFrame ==
    /\ pc = "first"
    /\ \E d \in Deltas :
        /\ elapsed + d <= MaxElapsed
        /\ elapsed' = elapsed + d
        /\ overstep' = overstep + d
        /\ frameAcc' = overstep + d
    /\ \E ks \in HeldChoices : held' = ks
    /\ frameSteps' = 0
    /\ pc' = "fixed"
    /\ UNCHANGED <<entities, bindings, fixedDelta, chain, fixedSteps, runs,
                   last, before, stepStart, args, anchor, override, xtask,
                   resolvedFrom,
                   shutdown,
                   sampled, unseen>>

\* FixedStepBegin dropping the time left over instead of carrying it.
FixedStepBegin_drops_remainder ==
    /\ pc = "fixed"
    /\ overstep >= FixedStep
    /\ overstep' = 0
    /\ fixedDelta' = FixedStep
    /\ fixedSteps' = fixedSteps + 1
    /\ frameSteps' = frameSteps + 1
    /\ stepStart' = entities
    /\ chain' = 1
    /\ pc' = "fixed_update"
    /\ UNCHANGED <<entities, bindings, held, elapsed, frameAcc, runs, last,
                   before, args, anchor, override, xtask,
                   resolvedFrom,
                   shutdown,
                   sampled, unseen>>

\* The fixed clock expends one timestep and FixedUpdate starts.
FixedStepBegin ==
    /\ pc = "fixed"
    /\ overstep >= FixedStep
    /\ overstep' = overstep - FixedStep
    /\ fixedDelta' = FixedStep
    /\ fixedSteps' = fixedSteps + 1
    /\ frameSteps' = frameSteps + 1
    /\ stepStart' = entities
    /\ chain' = 1
    /\ pc' = "fixed_update"
    /\ UNCHANGED <<entities, bindings, held, elapsed, frameAcc, runs, last,
                   before, args, anchor, override, xtask,
                   resolvedFrom,
                   shutdown,
                   sampled, unseen>>

\* Less than one timestep is left: the Update schedule runs next.
FixedLoopEnd ==
    /\ pc = "fixed"
    /\ overstep < FixedStep
    /\ pc' = "update"
    /\ UNCHANGED <<entities, bindings, held, fixedDelta, overstep, chain,
                   elapsed, fixedSteps, frameAcc, frameSteps, runs, last,
                   before, stepStart, args, anchor, override, xtask,
                   resolvedFrom,
                   shutdown,
                   sampled, unseen>>

ChainAdvance ==
    IF chain = Len(FixedUpdateChain)
    THEN chain' = 0 /\ pc' = "fixed"
    ELSE chain' = chain + 1 /\ pc' = pc

\* FixedUpdate: the Velocity Resolver.
FixedComputeVelocity ==
    /\ pc = "fixed_update"
    /\ FixedUpdateChain[chain] = "compute_velocity_from_input"
    /\ Ran("compute_velocity_from_input",
           compute_velocity_from_input(entities))
    /\ resolvedFrom' = entities
    /\ ChainAdvance
    /\ UNCHANGED <<bindings, held, fixedDelta, overstep, elapsed, fixedSteps,
                   frameAcc, frameSteps, runs, stepStart, anchor, override,
                   xtask,
                   shutdown,
                   sampled, unseen>>

\* FixedUpdate: the Integrator.
FixedIntegrateVelocity ==
    /\ pc = "fixed_update"
    /\ FixedUpdateChain[chain] = "integrate_velocity"
    /\ Ran("integrate_velocity", integrate_velocity(entities, fixedDelta))
    /\ ChainAdvance
    /\ UNCHANGED <<bindings, held, fixedDelta, overstep, elapsed, fixedSteps,
                   frameAcc, frameSteps, runs, stepStart, anchor, override,
                   xtask,
                   resolvedFrom,
                   shutdown,
                   sampled, unseen>>

\* Some player's MoveInput differs between the worlds old and new.
InputChanged(old, new) ==
    \E i \in DOMAIN old : i \in DOMAIN new /\ old[i].input # new[i].input

\* What an Update leaves for later: the keys it found held, and how many
\* Updates have changed MoveInput since the last fixed step (2 for more).
Sampled(old, new) ==
    /\ sampled' = held
    /\ unseen' =
          LET c == IF InputChanged(old, new) THEN 1 ELSE 0
          IN  IF frameSteps > 0 THEN c
              ELSE IF unseen + c > 2 THEN 2 ELSE unseen + c

\* Update with spawn_player registered in it as well as in Startup.
Update_respawning ==
    /\ pc = "update"
    /\ Ran("read_player_input",
           spawn_player(read_player_input(entities, held, bindings)))
    /\ anchor' = Anchored(entities,
                          read_player_input(entities, held, bindings))
    /\ Sampled(entities, read_player_input(entities, held, bindings))
    /\ pc' = "first"
    /\ UNCHANGED <<bindings, held, fixedDelta, overstep, chain, elapsed,
                   fixedSteps, frameAcc, frameSteps, runs, stepStart,
                   override, xtask, resolvedFrom, shutdown>>

\* Update: the Input Sampler, which ends the render tick.
Update ==
    /\ pc = "update"
    /\ Ran("read_player_input",
           read_player_input(entities, held, bindings))
    /\ anchor' = Anchored(entities,
                          read_player_input(entities, held, bindings))
    /\ Sampled(entities, read_player_input(entities, held, bindings))
    /\ pc' = "first"
    /\ UNCHANGED <<bindings, held, fixedDelta, overstep, chain, elapsed,
                   fixedSteps, frameAcc, frameSteps, runs, stepStart,
                   override, xtask, resolvedFrom, shutdown>>

\* The runner is in its loop of render ticks: Startup is over.
InLoop == pc \in {"first", "fixed", "fixed_update", "update"}

AppVars_but_shutdown ==
    <<entities, bindings, held, fixedDelta, overstep, pc, chain, elapsed,
      fixedSteps, frameAcc, frameSteps, runs, last, before, stepStart, args,
      anchor, override, resolvedFrom, sampled, unseen>>

\* The host asks the application to stop (the window is closed): the signal
\* can arrive at any moment of the loop, in the middle of a fixed step too.
ShutdownSignal ==
    /\ InLoop
    /\ ~shutdown
    /\ shutdown' = TRUE
    /\ UNCHANGED <<AppVars_but_shutdown, xtask>>

\* The runner stopping as soon as the signal has arrived, wherever it is.
Terminate_mid_flight ==
    /\ InLoop
    /\ shutdown
    /\ pc' = "terminated"
    /\ UNCHANGED <<entities, bindings, held, fixedDelta, overstep, chain,
                   elapsed, fixedSteps, frameAcc, frameSteps, runs, last,
                   before, stepStart, args, anchor, override, xtask,
                   resolvedFrom, shutdown,
                   sampled, unseen>>

\* The runner looks for the signal after each complete update, which holds
\* the whole render tick (the first one Startup too), and then stops.
Terminate ==
    /\ pc = "first"
    /\ last # "spawn_player"
    /\ shutdown
    /\ pc' = "terminated"
    /\ UNCHANGED <<entities, bindings, held, fixedDelta, overstep, chain,
                   elapsed, fixedSteps, frameAcc, frameSteps, runs, last,
                   before, stepStart, args, anchor, override, xtask,
                   resolvedFrom, shutdown,
                   sampled, unseen>>

Next ==
    \/ HostInsertKeybindings
    \/ AppPlugin_build
    \/ PlayerPlugin_build
    \/ RunApp
    \/ Startup
    \/ BeginFrame
    \/ FixedStepBegin
    \/ FixedLoopEnd
    \/ FixedComputeVelocity
    \/ FixedIntegrateVelocity
    \/ Update
    \/ ShutdownSignal
    \/ Terminate

Spec == Init /\ [][Next]_vars

\* What the runner does by itself once started, up to the Update schedule
\* of a render tick: the plugins' build, Startup and the fixed loop.
LoopStep ==
    \/ AppPlugin_build
    \/ PlayerPlugin_build
    \/ RunApp
    \/ Startup
    \/ FixedStepBegin
    \/ FixedLoopEnd
    \/ FixedComputeVelocity
    \/ FixedIntegrateVelocity

\* The Update schedule of a render tick comes to its end: the one step that
\* takes the runner from Update to the boundary between two ticks.
UpdateEnds == pc = "update" /\ pc' = "first"

\* A render tick that finds the wall clock advanced.
AdvancingFrame == BeginFrame /\ elapsed' > elapsed

\* The application as build_app() configures it, the default
\* PlayerKeybindings left in place by the host.
NextLive ==
    \/ LoopStep
    \/ BeginFrame
    \/ Update
    \/ ShutdownSignal
    \/ Terminate

\* That application on a host whose runner never stalls inside a render tick
\* and whose render ticks keep finding the wall clock advanced, for as long
\* as the loop runs.
SpecLive ==
    /\ Init
    /\ [][NextLive]_vars
    /\ WF_vars(LoopStep)
    /\ WF_pc(UpdateEnds)
    /\ SF_vars(AdvancingFrame)

----------------------------------------------------------------------------
(* xtask: cargo xtask <test|build|run> *)

\* env::args().skip(1) of the invocations considered.
ArgvChoices ==
    { <<>>, <<"fmt">>, <<"test">>, <<"build">>, <<"build", "--release">>,
      <<"run">>, <<"run", "--", "--release">> }

\* Exit statuses of a child process: an i32 where the platform has 32-bit
\* exit statuses, of which 0 alone is success.
SampleCodes == {0, 1, 101, 255, 256, 0 - 1}

\* What Command::status() can come back with: the child exited with a code,
\* it was ended by a signal (code() is None), or it could not be spawned.
Outcomes ==
    {[kind |-> "exited", code |-> c] : c \in SampleCodes}
        \cup {[kind |-> "signal", code |-> 0],
              [kind |-> "spawn_failed", code |-> 0]}

\* c as u8.
AsU8(c) == c % 256

\* The ExitCode run_cargo and run_cargo_owned return.
run_cargo_exit_code(outcome) ==
    IF outcome.kind = "exited" THEN AsU8(outcome.code) ELSE 1

\* run_cargo_ok: run_cargo(args) == ExitCode::SUCCESS.
run_cargo_ok(outcome) == run_cargo_exit_code(outcome) = 0

\* parse_cmd.
parse_cmd(str) == IF str \in {"test", "build", "run"} THEN {str} ELSE {}

\* One cargo child process has run to its end.
Called(cargo_args, outcome) ==
    Append(xtask.calls, [args |-> cargo_args, outcome |-> outcome])

AppVars ==
    <<entities, bindings, held, fixedDelta, overstep, pc, chain, elapsed,
      fixedSteps, frameAcc, frameSteps, runs, last, before, stepStart, args,
      anchor, override, resolvedFrom, shutdown, sampled, unseen>>

InitXtask ==
    /\ pc = "xtask"
    /\ entities = <<>>
    /\ bindings = {}
    /\ held = {}
    /\ fixedDelta = 0
    /\ InitCommon
    /\ \E argv \in ArgvChoices :
        xtask = [pc |-> "main", argv |-> argv, calls |-> <<>>, exit |-> {}]

\* main up to the match: no subcommand or an unknown one ends with code 2.
XtaskParse ==
    /\ xtask.pc = "main"
    /\ IF xtask.argv = <<>> \/ parse_cmd(Head(xtask.argv)) = {}
       THEN xtask' = [xtask EXCEPT !.pc = "done", !.exit = {2}]
       ELSE xtask' = [xtask EXCEPT !.pc =
                         IF Head(xtask.argv) = "test" THEN "test"
                         ELSE "gate"]
    /\ UNCHANGED AppVars

\* XTaskCmd::Test => run_cargo(&["test"]).
XtaskTest ==
    /\ xtask.pc = "test"
    /\ \E o \in Outcomes :
        xtask' = [xtask EXCEPT !.calls = Called(<<"test">>, o),
                               !.exit = {run_cargo_exit_code(o)},
                               !.pc = "done"]
    /\ UNCHANGED AppVars

\* Build and Run: if !run_cargo_ok(&["test"]) { return ExitCode::from(1); }
XtaskGate ==
    /\ xtask.pc = "gate"
    /\ \E o \in Outcomes :
        IF run_cargo_ok(o)
        THEN xtask' = [xtask EXCEPT !.calls = Called(<<"test">>, o),
                                    !.pc = Head(xtask.argv)]
        ELSE xtask' = [xtask EXCEPT !.calls = Called(<<"test">>, o),
                                    !.exit = {1},
                                    !.pc = "done"]
    /\ UNCHANGED AppVars

\* XTaskCmd::Build: run_cargo(&["build"]).
XtaskBuild ==
    /\ xtask.pc = "build"
    /\ \E o \in Outcomes :
        xtask' = [xtask EXCEPT !.calls = Called(<<"build">>, o),
                               !.exit = {run_cargo_exit_code(o)},
                               !.pc = "done"]
    /\ UNCHANGED AppVars

\* XTaskCmd::Run: run_cargo_owned of "run" and the remaining arguments.
XtaskRun ==
    /\ xtask.pc = "run"
    /\ \E o \in Outcomes :
        xtask' = [xtask EXCEPT
                     !.calls = Called(<<"run">> \o Tail(xtask.argv), o),
                     !.exit = {run_cargo_exit_code(o)},
                     !.pc = "done"]
    /\ UNCHANGED AppVars

NextXtask ==
    \/ XtaskParse
    \/ XtaskTest
    \/ XtaskGate
    \/ XtaskBuild
    \/ XtaskRun

SpecXtask == InitXtask /\ [][NextXtask]_vars

----------------------------------------------------------------------------
(* Vocabulary of the properties *)

\* The entities a query over `comps` visits.
Queried(ents, comps) == {i \in DOMAIN ents : Matches(ents[i], comps)}

InputQuery == {"Player", "MoveInput"}
ResolverQuery == {"Player", "MoveInput", "MoveSpeed", "Transform", "Velocity"}
IntegratorQuery == {"Player", "Velocity", "Transform"}

\* A single run of system `name` has just finished.
JustRan(name) == pc = "unit" /\ last = name

\* d is the zero vector when the integer vector s is zero, and otherwise the
\* vector of length 1 that points the way s does.
IsNormalized(d, s) ==
    IF Dot(s) = 0 THEN d = ZERO
    ELSE /\ HasLength(d, 1)
         /\ d.x * s.y = d.y * s.x
         /\ d.y * s.z = d.z * s.y
         /\ d.x * s.z = d.z * s.x
         /\ d.x * s.x + d.y * s.y + d.z * s.z > 0

DistinctKeys(b) == Cardinality({KeyOf(b, a) : a \in ActionNames}) = 6

Pressed(ks, b, a) == IF KeyOf(b, a) \in ks THEN 1 ELSE 0

\* One unit for each action whose key is held.
AxisSum(ks, b) ==
    Vec(Pressed(ks, b, "right") - Pressed(ks, b, "left"),
        Pressed(ks, b, "up") - Pressed(ks, b, "down"),
        Pressed(ks, b, "back") - Pressed(ks, b, "forward"))

\* The sums that give each held key the unit of exactly one action bound to
\* it, and nothing to a key bound to no action.
RECURSIVE OneUnitPerKeySums(_, _)
OneUnitPerKeySums(ks, b) ==
    IF ks = {} THEN {ZERO}
    ELSE LET k == CHOOSE x \in ks : TRUE
             bound == {a \in ActionNames : KeyOf(b, a) = k}
             units == IF bound = {} THEN {ZERO}
                      ELSE {ActionDir(a) : a \in bound}
         IN  {VecAdd(u, r) : u \in units, r \in OneUnitPerKeySums(ks \ {k}, b)}

\* Quarter-turn yaws written out: 0, +90, 180 and 270 degrees about +Y.
YawTable(q, v) ==
    CASE q = 0 -> <<v.x, v.y, v.z>>
      [] q = 1 -> <<v.z, v.y, 0 - v.x>>
      [] q = 2 -> <<0 - v.x, v.y, 0 - v.z>>
      [] q = 3 -> <<0 - v.z, v.y, v.x>>

\* v = (Orientation * MoveInput) * MoveSpeed for the triple of entity e.
IsResolved(v, e) ==
    LET w == YawTable(e.rotation, e.input)
    IN  IF e.speed = 0 \/ IsZero(e.input) THEN v = ZERO
        ELSE /\ v.x = w[1] * e.speed
             /\ v.y = w[2] * e.speed
             /\ v.z = w[3] * e.speed
             /\ v.rad = e.input.rad

Coord(v, k) == IF k = 1 THEN v.x ELSE IF k = 2 THEN v.y ELSE v.z

\* to = from + v * (dt ticks).
IsMovedBy(to, from, v, dt) ==
    \A r \in Rads : \A k \in 1..3 :
        (to[r][k] - from[r][k]) * TicksPerSec =
            (IF r = v.rad THEN Coord(v, k) ELSE 0) * dt * PosDen

----------------------------------------------------------------------------
(* C1 *)

\* A fixed step has run to its end and nothing has run since.
FixedStepDone == pc = "fixed" /\ frameSteps > 0

\* C1: at the end of every fixed step, each player's translation is the one
\* it had when the step began plus rotate(Orientation, MoveInput) * MoveSpeed
\* * dt for the MoveInput, MoveSpeed and Orientation held when the step
\* began: the Resolver ran before the Integrator in that step.
C1_ResolverBeforeIntegrator ==
    FixedStepDone =>
        \A i \in Queried(stepStart, ResolverQuery) :
            LET v == entities[i].velocity
            IN  /\ IsResolved(v, stepStart[i])
                /\ IsMovedBy(entities[i].translation,
                             stepStart[i].translation, v, FixedStep)

\* A step that began with a stale Velocity (zero, with a non-zero MoveInput)
\* has ended and moved the player.
C1_Witness ==
    /\ FixedStepDone
    /\ \E i \in Queried(stepStart, ResolverQuery) :
        /\ ~IsZero(stepStart[i].input)
        /\ IsZero(stepStart[i].velocity)
        /\ entities[i].translation # stepStart[i].translation

----------------------------------------------------------------------------
(* C2 *)

\* C2: in every state of the application loop each player's MoveInput is
\* the zero vector or has length 1.
C2_MoveInputNormalizedOrZero ==
    \A i \in Queried(entities, InputQuery) :
        IsZero(entities[i].input) \/ HasLength(entities[i].input, 1)

\* A three-axis diagonal has been sampled: (1, 1, -1) / sqrt 3.
C2_Witness ==
    /\ pc = "first"
    /\ last = "read_player_input"
    /\ \E i \in Queried(entities, InputQuery) :
        entities[i].input = VecRad(1, 1, 0 - 1, 3)

----------------------------------------------------------------------------
(* C3 *)

\* C3: after read_player_input has run with a Keybindings mapping present,
\* every player's MoveInput is the normalized sum of one unit per held bound
\* key (right +X, left -X, up +Y, down -Y, forward -Z, back +Z), a key bound
\* to no action adding nothing: zero when the sum is zero, otherwise the
\* vector of length 1 along the sum.  For a mapping with six distinct keys
\* the sum is one unit per action whose key is held.
C3_NormalizedSumOfHeldKeys ==
    (JustRan("read_player_input") /\ bindings # {}) =>
        LET b == CHOOSE m \in bindings : TRUE
            sums == IF DistinctKeys(b) THEN {AxisSum(held, b)}
                    ELSE OneUnitPerKeySums(held, b)
        IN  \A i \in Queried(entities, InputQuery) :
                \E s \in sums : IsNormalized(entities[i].input, s)

\* The remapped forward key (ArrowUp) and right are held together with W,
\* which the remapping leaves unbound: the sampler wrote (1, 0, -1) / sqrt 2
\* over a pre-seeded (9, 9, 9).
C3_Witness ==
    /\ JustRan("read_player_input")
    /\ bindings = {RemappedBindings}
    /\ held = {"ArrowUp", "KeyD", "KeyW"}
    /\ \E i \in Queried(entities, InputQuery) :
        /\ before[i].input = Vec(9, 9, 9)
        /\ entities[i].input = VecRad(1, 0, 0 - 1, 2)

----------------------------------------------------------------------------
(* C4 *)

BothHeld(b, a1, a2) == KeyOf(b, a1) \in held /\ KeyOf(b, a2) \in held

NeitherHeld(b, a1, a2) == KeyOf(b, a1) \notin held /\ KeyOf(b, a2) \notin held

\* C4: after read_player_input has run with a mapping of six distinct keys,
\* an opposite pair held together leaves the component of its axis zero in
\* every player's MoveInput, and when every axis has its pair either held
\* together or not held at all the MoveInput is the zero vector.
C4_OppositeKeysCancel ==
    (JustRan("read_player_input") /\ bindings # {}) =>
        LET b == CHOOSE m \in bindings : TRUE
        IN  DistinctKeys(b) =>
              \A i \in Queried(entities, InputQuery) :
                /\ BothHeld(b, "right", "left") => entities[i].input.x = 0
                /\ BothHeld(b, "up", "down") => entities[i].input.y = 0
                /\ BothHeld(b, "forward", "back") => entities[i].input.z = 0
                /\ ( /\ BothHeld(b, "right", "left")
                        \/ NeitherHeld(b, "right", "left")
                     /\ BothHeld(b, "up", "down")
                        \/ NeitherHeld(b, "up", "down")
                     /\ BothHeld(b, "forward", "back")
                        \/ NeitherHeld(b, "forward", "back") )
                   => entities[i].input = ZERO

\* Left and right are held together with forward: the pair cancels and the
\* player is left with a pure forward intent, written over (9, 9, 9).
C4_Witness ==
    /\ JustRan("read_player_input")
    /\ bindings = {PlayerKeybindings_default}
    /\ held = {"KeyA", "KeyD", "KeyW"}
    /\ \E i \in Queried(entities, InputQuery) :
        /\ before[i].input = Vec(9, 9, 9)
        /\ entities[i].input = Vec(0, 0, 0 - 1)

----------------------------------------------------------------------------
(* C5 *)

\* C5: when the Keybindings resource is absent, a run of read_player_input
\* leaves every entity as it was, whatever keys are held.
C5_NoWriteWithoutBindings ==
    (JustRan("read_player_input") /\ bindings = {}) => entities = before

\* The sampler ran without bindings while keys were held, and the pre-seeded
\* (9, 9, 9) is still there.
C5_Witness ==
    /\ JustRan("read_player_input")
    /\ bindings = {}
    /\ "KeyW" \in held
    /\ \E i \in Queried(entities, InputQuery) :
        entities[i].input = Vec(9, 9, 9)

----------------------------------------------------------------------------
(* C6 *)

SameTriple(e1, e2) ==
    /\ e1.input = e2.input
    /\ e1.speed = e2.speed
    /\ e1.rotation = e2.rotation

\* C6: after compute_velocity_from_input has run, every player's Velocity is
\* its Orientation applied to its MoveInput, scaled by its MoveSpeed, and two
\* players with the same (MoveInput, MoveSpeed, Orientation) have the same
\* Velocity whatever their Velocity was before.
C6_VelocityIsRotatedScaledInput ==
    JustRan("compute_velocity_from_input") =>
        /\ \A i \in Queried(entities, ResolverQuery) :
            IsResolved(entities[i].velocity, before[i])
        /\ \A i, j \in Queried(entities, ResolverQuery) :
            SameTriple(before[i], before[j])
                => entities[i].velocity = entities[j].velocity

\* Two players with MoveInput +X, MoveSpeed 10 and a +90 degree yaw, one with
\* Velocity zero before and one with (6, 0, 0): both end with (0, 0, -10).
C6_Witness ==
    /\ JustRan("compute_velocity_from_input")
    /\ \E i, j \in Queried(entities, ResolverQuery) :
        /\ before[i].input = Vec(1, 0, 0)
        /\ before[i].speed = 10
        /\ before[i].rotation = 1
        /\ SameTriple(before[i], before[j])
        /\ before[i].velocity # before[j].velocity
        /\ entities[i].velocity = Vec(0, 0, 0 - 10)
        /\ entities[j].velocity = Vec(0, 0, 0 - 10)

----------------------------------------------------------------------------
(* C7 *)

\* C7: after integrate_velocity has run, every player's translation is the
\* one before plus Velocity * dt, dt being the delta of the fixed clock; with
\* Velocity (6, 0, 0) and dt = 1/60 s the translation has moved by
\* (0.1, 0, 0).
C7_IntegratorAddsVelocityDt ==
    JustRan("integrate_velocity") =>
        \A i \in Queried(entities, IntegratorQuery) :
            /\ IsMovedBy(entities[i].translation, before[i].translation,
                         before[i].velocity, fixedDelta)
            /\ (before[i].velocity = Vec(6, 0, 0) /\ fixedDelta = FixedStep)
                => /\ 10 * (entities[i].translation[1][1]
                              - before[i].translation[1][1]) = PosDen
                   /\ entities[i].translation[1][2]
                        = before[i].translation[1][2]
                   /\ entities[i].translation[1][3]
                        = before[i].translation[1][3]

\* The Integrator ran with Velocity (6, 0, 0) and dt = 1/60 s on a player
\* away from the origin, and the player moved.
C7_Witness ==
    /\ JustRan("integrate_velocity")
    /\ fixedDelta = FixedStep
    /\ \E i \in Queried(entities, IntegratorQuery) :
        /\ before[i].velocity = Vec(6, 0, 0)
        /\ before[i].translation = Translation(PosDen, 2 * PosDen, 3 * PosDen)
        /\ entities[i].translation # before[i].translation

----------------------------------------------------------------------------
(* C8 *)

\* C8: when the fixed clock reports a zero delta, a run of integrate_velocity
\* leaves every entity as it was, whatever its Velocity.
C8_ZeroDeltaIsNoOp ==
    (JustRan("integrate_velocity") /\ fixedDelta = 0) => entities = before

\* The Integrator ran with a zero delta on a player with Velocity
\* (100, 0, 0) at (1, 2, 3), which is still there.
C8_Witness ==
    /\ JustRan("integrate_velocity")
    /\ fixedDelta = 0
    /\ \E i \in Queried(entities, IntegratorQuery) :
        /\ entities[i].velocity = Vec(100, 0, 0)
        /\ entities[i].translation = Translation(PosDen, 2 * PosDen, 3 * PosDen)

----------------------------------------------------------------------------
(* C9 *)

SpeedMatchesInput(e) ==
    ~IsZero(e.input) => HasLength(e.velocity, e.speed)

\* C9 as stated: in every state, a player whose MoveInput is non-zero has a
\* Velocity of magnitude MoveSpeed.
C9_SpeedWheneverInputNonZero ==
    \A i \in Queried(entities, ResolverQuery) : SpeedMatchesInput(entities[i])

\* The Resolver has run since the Sampler last ran (or since the spawn).
ResolvedSinceSampled ==
    last \in {"compute_velocity_from_input", "integrate_velocity"}

\* C9: whenever a player's MoveInput is non-zero and the Resolver has run
\* since the Sampler last wrote MoveInput, the magnitude of its Velocity is
\* its MoveSpeed; diagonal input gives no more than MoveSpeed.
C9_SpeedOnceResolved ==
    ResolvedSinceSampled =>
        \A i \in Queried(entities, ResolverQuery) :
            SpeedMatchesInput(entities[i])

\* The Resolver has just turned the forward+right diagonal into a Velocity
\* of (5, 0, -5) / sqrt 2, whose magnitude is the MoveSpeed 5.
C9_Witness ==
    /\ pc = "fixed_update"
    /\ last = "compute_velocity_from_input"
    /\ \E i \in Queried(entities, ResolverQuery) :
        /\ entities[i].input = VecRad(1, 0, 0 - 1, 2)
        /\ entities[i].speed = 5
        /\ entities[i].velocity = VecRad(5, 0, 0 - 5, 2)

----------------------------------------------------------------------------
(* C10 *)

\* A render tick has run all its fixed steps.
FixedPhaseDone == pc \in {"update", "first"}

\* C10: once a render tick has run its fixed steps, it has run exactly
\* floor(accumulated / FixedStep) of them, the leftover is the remainder of
\* that division and so smaller than one fixed step, and the fixed steps run
\* so far times FixedStep plus the leftover is the total elapsed time.
C10_AccumulatorPattern ==
    FixedPhaseDone =>
        /\ frameSteps = frameAcc \div FixedStep
        /\ overstep = frameAcc % FixedStep
        /\ overstep < FixedStep
        /\ fixedSteps * FixedStep + overstep = elapsed

\* A render tick that began with 1 tick carried over and lasted two fixed
\* steps and 1 tick has run two fixed steps and carries 2 ticks on.
C10_Witness ==
    /\ pc = "update"
    /\ frameAcc = 2 * FixedStep + 2
    /\ frameSteps = 2
    /\ overstep = 2
    /\ fixedSteps = 2
    /\ elapsed = 2 * FixedStep + 2

----------------------------------------------------------------------------
(* C11 *)

\* No fixed step is under way: the world is between two fixed steps.
BetweenFixedSteps == pc \in {"fixed", "update", "first"}

\* Time fed to the fixed clock since the player's MoveInput last changed,
\* counted from the leftover the clock held at that moment.
SpanTime == anchor.overstep + (elapsed - anchor.elapsed)

\* Fixed steps begun since the player's MoveInput last changed.
SpanSteps == fixedSteps - anchor.steps

\* C11: over a span in which MoveInput, MoveSpeed and Orientation are
\* constant, what the Fixed Phase has done depends on the total time of the
\* render ticks of the span and not on how it was divided: at the end of
\* every render tick the number of fixed steps run in the span is
\* floor(time / FixedStep), every one of them ran with dt = FixedStep, and
\* between fixed steps the player is where the span began plus
\* steps * FixedStep * Velocity, Velocity being the value resolved from the
\* constant triple.
C11_RenderRateIndependence ==
    /\ FixedPhaseDone =>
        /\ SpanSteps = SpanTime \div FixedStep
        /\ overstep = SpanTime % FixedStep
    /\ fixedSteps > 0 => fixedDelta = FixedStep
    /\ BetweenFixedSteps =>
        \A i \in Queried(entities, ResolverQuery) :
            /\ SpanSteps > 0 => IsResolved(entities[i].velocity, entities[i])
            /\ IsMovedBy(entities[i].translation, anchor.translation,
                         entities[i].velocity, SpanSteps * FixedStep)

\* The forward+right diagonal has been held over a span of 9 ticks that more
\* than one render tick made up (the last one ran a single fixed step): two
\* fixed steps have run and the player is 2 * FixedStep * Velocity away from
\* where the span began.
C11_Witness ==
    /\ pc = "update"
    /\ SpanTime = 2 * FixedStep + 1
    /\ SpanSteps = 2
    /\ frameSteps = 1
    /\ anchor.elapsed > 0
    /\ \E i \in Queried(entities, ResolverQuery) :
        /\ entities[i].input = VecRad(1, 0, 0 - 1, 2)
        /\ entities[i].translation # anchor.translation

----------------------------------------------------------------------------
(* C12 *)

\* C12: the entity PlayerBundle::new(position, speed) creates carries the
\* Player tag and every player component, with MoveInput zero, Velocity zero,
\* the Transform at the requested position and the requested MoveSpeed; the
\* entities that were there are left as they were.
C12_NewPlayerDefaults ==
    JustRan("PlayerBundle_new") =>
        LET n == Len(entities)
            e == entities[n]
        IN  /\ n = Len(before) + 1
            /\ SubSeq(entities, 1, n - 1) = before
            /\ e.comps = AllComps
            /\ e.input = ZERO
            /\ e.velocity = ZERO
            /\ e.translation = args[1]
            /\ e.speed = args[2]

\* A player asked for at (1, 2, 3) with speed 10 has been added to a world
\* whose first player holds a non-zero MoveInput: the new one starts at rest
\* at (1, 2, 3) with speed 10.
C12_Witness ==
    /\ JustRan("PlayerBundle_new")
    /\ args = <<Translation(PosDen, 2 * PosDen, 3 * PosDen), 10>>
    /\ entities[1].input # ZERO
    /\ entities[Len(entities)].speed = 10
    /\ entities[Len(entities)].input = ZERO
    /\ entities[Len(entities)].velocity = ZERO
    /\ entities[Len(entities)].translation =
           Translation(PosDen, 2 * PosDen, 3 * PosDen)

----------------------------------------------------------------------------
(* C13 *)

\* Startup has not run yet.
BeforeLoop == pc \in {"new", "app", "built", "startup"}

\* C13: spawn_player runs once, in Startup.  Until Startup has run the world
\* holds no entity, no system has run and the clocks have not moved; from
\* then on, after the first update and after any number of render ticks and
\* fixed steps, and after shutdown too, there is exactly one Player entity.
C13_SetupRunsOnce ==
    /\ BeforeLoop =>
        /\ entities = <<>>
        /\ last = "none"
        /\ elapsed = 0
        /\ fixedSteps = 0
    /\ ~BeforeLoop => Cardinality(Queried(entities, {"Player"})) = 1

\* Several render ticks and two fixed steps after Startup, the Sampler having
\* just run again, the world still holds its one Player.
C13_Witness ==
    /\ pc = "first"
    /\ last = "read_player_input"
    /\ fixedSteps = 2
    /\ elapsed = 2 * FixedStep + 2
    /\ Cardinality(Queried(entities, {"Player"})) = 1

----------------------------------------------------------------------------
(* C14 *)

\* Every entity is as it was before the last system ran, but for `field`.
OnlyWrote(field) ==
    /\ DOMAIN entities = DOMAIN before
    /\ \A i \in DOMAIN entities :
        \A f \in DOMAIN entities[i] \ {field} : entities[i][f] = before[i][f]

\* C14: each system writes one attribute.  read_player_input leaves all but
\* MoveInput as it was (so Position does not change in a Variable Phase
\* tick), compute_velocity_from_input all but Velocity, integrate_velocity
\* all but the Transform's translation; MoveSpeed, the orientation and the
\* set of components of every entity are left alone by all three.
C14_SingleWriter ==
    /\ last = "read_player_input" => OnlyWrote("input")
    /\ last = "compute_velocity_from_input" => OnlyWrote("velocity")
    /\ last = "integrate_velocity" => OnlyWrote("translation")
    /\ last \in {"read_player_input", "compute_velocity_from_input",
                 "integrate_velocity"} =>
        \A i \in DOMAIN entities :
            /\ entities[i].speed = before[i].speed
            /\ entities[i].rotation = before[i].rotation
            /\ entities[i].comps = before[i].comps

\* The Resolver has just given a turned player with a non-zero MoveInput and
\* speed a new Velocity, and nothing else of it has changed.
C14_Witness ==
    /\ JustRan("compute_velocity_from_input")
    /\ \E i \in Queried(entities, ResolverQuery) :
        /\ entities[i].velocity # before[i].velocity
        /\ entities[i].input = before[i].input
        /\ entities[i].input # ZERO
        /\ entities[i].rotation = 1
        /\ entities[i].speed = 10
        /\ entities[i].translation = before[i].translation

----------------------------------------------------------------------------
(* C15 *)

\* MoveInput of every player is the normalised sum of the keys held under
\* mapping b.
SampledUnder(b) ==
    \A i \in Queried(entities, InputQuery) :
        \E sum \in OneUnitPerKeySums(held, b) :
            IsNormalized(entities[i].input, sum)

\* C15: a PlayerKeybindings the host inserted before the loop started,
\* whether before or after PlayerPlugin was registered, is the resource in
\* place throughout the loop and the mapping under which read_player_input
\* has sampled the held keys.
C15_HostOverrideIsUsed ==
    \A o \in override :
        /\ InLoop => bindings = {o.mapping}
        /\ (pc = "first" /\ last = "read_player_input") =>
               SampledUnder(o.mapping)

\* What does hold in the code: a PlayerKeybindings the host inserted after
\* PlayerPlugin was registered is the mapping in place and sampled under.
OverrideAfterRegistrationIsUsed ==
    \A o \in override :
        o.registered =>
            /\ InLoop => bindings = {o.mapping}
            /\ (pc = "first" /\ last = "read_player_input") =>
                   SampledUnder(o.mapping)

----------------------------------------------------------------------------
(* C16 *)

\* PlayerPlugin::build has run.
Registered == pc \notin {"new", "app"}

\* C16: once PlayerPlugin is registered, the PlayerKeybindings resource is
\* present, and it stays so in every later state; whenever read_player_input
\* has run in the assembled application it has not returned early but
\* written the direction sampled under that resource.
C16_KeybindingsStayPresent ==
    /\ Registered => Cardinality(bindings) = 1
    /\ (pc = "first" /\ last = "read_player_input") =>
           \A b \in bindings : SampledUnder(b)

\* In an application the host gave no mapping of its own, the Sampler has
\* found the default mapping and turned a held W into forward.
C16_Witness ==
    /\ pc = "first"
    /\ last = "read_player_input"
    /\ override = {}
    /\ bindings = {PlayerKeybindings_default}
    /\ held = {"KeyW"}
    /\ \E i \in Queried(entities, InputQuery) :
        /\ before[i].input = ZERO
        /\ entities[i].input = Vec(0, 0, 0 - 1)

----------------------------------------------------------------------------
(* C17 *)

\* C17: a run of read_player_input that finds the bindings leaves every
\* player with the same MoveInput, the direction sampled from the held keys,
\* whatever each of them held before.
C17_SameInputForAllPlayers ==
    (JustRan("read_player_input") /\ bindings # {}) =>
        /\ \A i, j \in Queried(entities, InputQuery) :
               entities[i].input = entities[j].input
        /\ \A b \in bindings : SampledUnder(b)

\* Two players that held different MoveInput values both hold forward after
\* one run with W held.
C17_Witness ==
    /\ JustRan("read_player_input")
    /\ held = {"KeyW"}
    /\ bindings = {PlayerKeybindings_default}
    /\ \E i, j \in Queried(entities, InputQuery) :
        /\ i # j
        /\ before[i].input # before[j].input
        /\ before[j].input # ZERO
        /\ entities[i].input = Vec(0, 0, 0 - 1)
        /\ entities[j].input = Vec(0, 0, 0 - 1)

----------------------------------------------------------------------------
(* C18 *)

\* The child process reported success: it exited with status 0.
Succeeded(outcome) == outcome.kind = "exited" /\ outcome.code = 0

GatedCommand ==
    xtask.argv # <<>> /\ Head(xtask.argv) \in {"build", "run"}

\* C18: under `build` and `run`, cargo build or cargo run is invoked only
\* straight after a cargo test that reported success, and a cargo test that
\* failed is the last cargo call made and ends xtask with exit code 1.
C18_NoBuildOrRunUnlessTestsPass ==
    GatedCommand =>
        \A k \in DOMAIN xtask.calls :
            LET call == xtask.calls[k]
            IN  /\ Head(call.args) \in {"build", "run"} =>
                    /\ k = 2
                    /\ xtask.calls[1].args = <<"test">>
                    /\ Succeeded(xtask.calls[1].outcome)
                /\ (call.args = <<"test">> /\ ~Succeeded(call.outcome)
                        /\ xtask.pc = "done") =>
                    /\ Len(xtask.calls) = k
                    /\ xtask.exit = {1}

\* What does hold in the code: the gate is the low byte of the exit status
\* of cargo test, so the rule is kept for every status but the non-zero
\* multiples of 256.
GateOnLowByteOfStatus ==
    GatedCommand =>
        \A k \in DOMAIN xtask.calls :
            LET call == xtask.calls[k]
            IN  /\ Head(call.args) \in {"build", "run"} =>
                    /\ k = 2
                    /\ xtask.calls[1].args = <<"test">>
                    /\ xtask.calls[1].outcome.kind = "exited"
                    /\ xtask.calls[1].outcome.code % 256 = 0
                /\ (call.args = <<"test">> /\ ~run_cargo_ok(call.outcome)) =>
                    /\ Len(xtask.calls) = k
                    /\ xtask.pc = "done"
                    /\ xtask.exit = {1}
                /\ (call.args = <<"test">> /\ run_cargo_ok(call.outcome)
                        /\ xtask.pc = "done") =>
                    Len(xtask.calls) = 2

----------------------------------------------------------------------------
(* C19 *)

\* The claim as stated: in every state each player's Velocity is the value
\* of its MoveInput, MoveSpeed and orientation as the last Variable Phase
\* tick left them.
C19_VelocityFollowsLastSample ==
    \A i \in Queried(entities, ResolverQuery) :
        IsResolved(entities[i].velocity, entities[i])

\* C19: in every state each player's Velocity is zero until the Velocity
\* Resolver has run and from then on the value of MoveInput, MoveSpeed and
\* orientation as the Resolver last read them, never a sum with an earlier
\* Velocity; it is the value of the current MoveInput once a fixed step has
\* run after the last Variable Phase tick.
C19_VelocityFollowsLastResolve ==
    \A i \in Queried(entities, ResolverQuery) :
        /\ resolvedFrom = <<>> => entities[i].velocity = ZERO
        /\ resolvedFrom # <<>> =>
               IsResolved(entities[i].velocity, resolvedFrom[i])
        /\ ResolvedSinceSampled =>
               IsResolved(entities[i].velocity, entities[i])

\* Forward was held over a fixed step and released: after the Update that
\* sampled the release MoveInput is zero while Velocity is still the forward
\* velocity the Resolver last wrote.
C19_Witness ==
    /\ pc = "first"
    /\ last = "read_player_input"
    /\ \E i \in Queried(entities, ResolverQuery) :
        /\ entities[i].input = ZERO
        /\ i \in DOMAIN resolvedFrom
        /\ resolvedFrom[i].input = Vec(0, 0, 0 - 1)
        /\ entities[i].velocity = Vec(0, 0, 0 - 5)

----------------------------------------------------------------------------
(* C20 *)

\* The step runs once more the system that ran last, on the world it left.
RunsAgain(name) ==
    /\ pc = "unit"
    /\ last = name
    /\ last' = name
    /\ runs' = runs + 1

\* The claim as stated: a second run in a row of the Input Sampler, of the
\* Velocity Resolver or of the Integrator leaves the world as the first run
\* left it.
C20_EverySystemIdempotent ==
    [][(\/ RunsAgain("read_player_input")
        \/ RunsAgain("compute_velocity_from_input")
        \/ RunsAgain("integrate_velocity")) => entities' = entities]_vars

\* C20: a second run in a row of read_player_input or of
\* compute_velocity_from_input leaves the world as the first run left it.
\* A second run of integrate_velocity does so only when dt is zero or no
\* player has a Velocity; otherwise it moves every player by Velocity * dt
\* once more.
C20_SamplerAndResolverIdempotent ==
    [][/\ (RunsAgain("read_player_input")
              \/ RunsAgain("compute_velocity_from_input"))
          => entities' = entities
       /\ RunsAgain("integrate_velocity") =>
          /\ \A i \in Queried(entities, IntegratorQuery) :
                 IsMovedBy(entities'[i].translation, entities[i].translation,
                           entities[i].velocity, fixedDelta)
          /\ (entities' = entities) <=>
                 \/ fixedDelta = 0
                 \/ \A i \in Queried(entities, IntegratorQuery) :
                        entities[i].velocity = ZERO]_vars

\* The Resolver has run twice on a player turned a quarter with MoveInput
\* +X and speed 10: the first run wrote the Velocity (0, 0, -10), which no
\* drawn world starts with, and the second run changed nothing.
C20_Witness ==
    /\ JustRan("compute_velocity_from_input")
    /\ runs = 2
    /\ entities = before
    /\ \E i \in Queried(entities, ResolverQuery) :
        /\ entities[i].input = Vec(1, 0, 0)
        /\ entities[i].rotation = 1
        /\ entities[i].speed = 10
        /\ entities[i].velocity = Vec(0, 0, 0 - 10)

----------------------------------------------------------------------------
(* C21 *)

\* The spec's full movement attribute set.
FullSet == {"MoveInput", "MoveSpeed", "Velocity", "Transform"}

Systems ==
    {"read_player_input", "compute_velocity_from_input", "integrate_velocity"}

\* MoveInput, Velocity and Position of entity i are as before the last run.
Untouched(i) ==
    /\ entities[i].input = before[i].input
    /\ entities[i].velocity = before[i].velocity
    /\ entities[i].translation = before[i].translation

\* The claim as stated: an entity lacking any attribute of the full set has
\* its MoveInput, Velocity and Position left alone by all three systems.
C21_OnlyFullSetAffected ==
    (pc = "unit" /\ last \in Systems) =>
        \A i \in DOMAIN before :
            ~Matches(before[i], FullSet) => Untouched(i)

\* The components the query of a system asks for.
QueryOf(name) ==
    CASE name = "read_player_input" -> InputQuery
      [] name = "compute_velocity_from_input" -> ResolverQuery
      [] name = "integrate_velocity" -> IntegratorQuery

\* C21: each system leaves alone every entity that lacks the Player tag or a
\* component of that system's own query: Player and MoveInput for the
\* Sampler, Player, MoveInput, MoveSpeed, Transform and Velocity for the
\* Resolver, Player, Velocity and Transform for the Integrator.
C21_OnlyQueriedEntitiesAffected ==
    (pc = "unit" /\ last \in Systems) =>
        \A i \in DOMAIN before :
            ~Matches(before[i], QueryOf(last)) => entities[i] = before[i]

\* The Integrator has moved a Player that carries a Velocity and a Transform
\* but neither MoveInput nor MoveSpeed, and has left alone its neighbour,
\* which carries the full attribute set but not the Player tag.
C21_Witness ==
    /\ JustRan("integrate_velocity")
    /\ fixedDelta = FixedStep
    /\ \E i, j \in DOMAIN before :
        /\ before[i].comps = {"Player", "Velocity", "Transform"}
        /\ entities[i].translation # before[i].translation
        /\ before[j].comps = FullSet
        /\ before[j].velocity # ZERO
        /\ entities[j] = before[j]

----------------------------------------------------------------------------
(* C22 *)

\* A fixed step is under way: FixedUpdate has started and not finished.
MidStep == pc = "fixed_update"

\* C22: the loop is left only for the terminated state, only when the
\* shutdown signal has arrived and only between two render ticks; in the
\* terminated state every fixed step begun has run both its Resolver and its
\* Integrator and the last tick has run its Variable Phase; and once
\* terminated nothing runs any more.
C22_ShutdownAtTickBoundary ==
    /\ [](pc = "terminated" =>
            /\ shutdown
            /\ chain = 0
            /\ overstep < FixedStep
            /\ last = "read_player_input"
            /\ fixedSteps > 0 =>
                   /\ resolvedFrom = stepStart
                   /\ \A i \in Queried(entities, IntegratorQuery) :
                          IsMovedBy(entities[i].translation,
                                    stepStart[i].translation,
                                    entities[i].velocity, FixedStep))
    /\ [][(InLoop /\ ~InLoop') =>
             /\ shutdown
             /\ pc = "first"
             /\ pc' = "terminated"]_vars
    /\ [][pc = "terminated" => UNCHANGED vars]_vars

\* The shutdown signal arrived and the loop ended after a render tick that
\* ran two fixed steps with forward held: the second step's Resolver and
\* Integrator have both run and the tick's Update has sampled the keys.
C22_Witness ==
    /\ pc = "terminated"
    /\ shutdown
    /\ frameSteps = 2
    /\ held = {"KeyW"}
    /\ last = "read_player_input"
    /\ \E i \in Queried(entities, ResolverQuery) :
        /\ entities[i].velocity = Vec(0, 0, 0 - 5)
        /\ entities[i].translation # stepStart[i].translation

----------------------------------------------------------------------------
(* C24 *)

\* C24: while a player's MoveInput is the zero the Sampler wrote at the
\* release of the keys, its Position stays what it was at that write, through
\* every fixed step, and its Velocity is zero once the first fixed step after
\* the release has run its Resolver.
C24_NoResidualMomentum ==
    \A i \in Queried(entities, ResolverQuery) :
        (~BeforeLoop /\ entities[i].input = ZERO) =>
            /\ entities[i].translation = anchor.translation
            /\ (SpanSteps > 0 /\ (MidStep => chain > 1)) =>
                   entities[i].velocity = ZERO

\* The player moved forward, the key was released, and a fixed step has run
\* since, which began with the forward Velocity still in place: Velocity is
\* zero and the player is still where it was at the release, away from where
\* it was spawned.
C24_Witness ==
    /\ pc = "update"
    /\ held = {}
    /\ SpanSteps = 1
    /\ stepStart # <<>>
    /\ stepStart[1].velocity = Vec(0, 0, 0 - 5)
    /\ anchor.elapsed > 0
    /\ \E i \in Queried(entities, ResolverQuery) :
        /\ entities[i].input = ZERO
        /\ entities[i].velocity = ZERO
        /\ entities[i].translation = anchor.translation
        /\ entities[i].translation # Translation(0, PosDen \div 2, 0)

----------------------------------------------------------------------------
(* C23 *)

\* C23: a fixed step works from the MoveInput the last Variable Phase tick
\* before it wrote, whatever earlier ticks wrote since the step before: at
\* the end of a fixed step MoveInput is the direction of the keys that last
\* tick sampled, Velocity is resolved from it and the player has moved by
\* that Velocity; when that tick saw no movement key held, a key pressed
\* and released since the previous step leaves the position where it was.
C23_LastWriteWins ==
    FixedStepDone =>
        \A i \in Queried(entities, ResolverQuery) :
            /\ \A b \in bindings :
                \E sum \in OneUnitPerKeySums(sampled, b) :
                    /\ IsNormalized(entities[i].input, sum)
                    /\ IsZero(sum) =>
                           entities[i].translation = stepStart[i].translation
            /\ IsResolved(entities[i].velocity, entities[i])
            /\ IsMovedBy(entities[i].translation, stepStart[i].translation,
                         entities[i].velocity, FixedStep)

\* Between the first fixed step and the second, both run at rest, forward
\* was pressed and released again: two Variable Phase ticks changed MoveInput
\* and the second step has left the player where it was spawned.
C23_Witness ==
    /\ FixedStepDone
    /\ frameSteps = 1
    /\ fixedSteps = 2
    /\ unseen = 2
    /\ sampled = {}
    /\ \E i \in Queried(entities, ResolverQuery) :
        /\ stepStart[i].velocity = ZERO
        /\ entities[i].input = ZERO
        /\ entities[i].velocity = ZERO
        /\ entities[i].translation = Translation(0, PosDen \div 2, 0)

----------------------------------------------------------------------------
(* C25 *)

\* The keys held give a non-zero direction under the mapping present: some
\* movement key is held and the keys held do not cancel.
Driving == \E b \in bindings : ~IsZero(InputDir(held, b))

\* A player at rest in the running loop with such keys held, a positive
\* MoveSpeed and room for one more fixed timestep on the clock considered.
KeyFirstHeld ==
    /\ InLoop
    /\ Driving
    /\ elapsed + FixedStep <= MaxElapsed
    /\ \E i \in Queried(entities, ResolverQuery) :
        /\ entities[i].speed > 0
        /\ entities[i].input = ZERO
        /\ entities[i].translation = anchor.translation

\* A fixed step has run since the Sampler wrote the player's MoveInput and
\* the Position is no longer what it was at that write.
Moved ==
    /\ SpanSteps > 0
    /\ \E i \in Queried(entities, ResolverQuery) :
           entities[i].translation # anchor.translation

\* C25: held input eventually moves the player: from the moment keys that
\* do not cancel are held with the player at rest, a fixed step eventually
\* runs and the Position differs from what it was when the keys were first
\* held, unless the keys stop giving a direction or the loop is terminated.
C25_HeldInputEventuallyMoves ==
    KeyFirstHeld ~> (Moved \/ ~Driving \/ pc = "terminated")

\* Forward was pressed with the player at rest; the first fixed step since
\* the Sampler saw the key has just run and moved the player off the
\* position it had then.
C25_Witness ==
    /\ FixedStepDone
    /\ held = {"KeyW"}
    /\ sampled = {"KeyW"}
    /\ SpanSteps = 1
    /\ Moved
    /\ \E i \in Queried(entities, ResolverQuery) :
        /\ stepStart[i].velocity = ZERO
        /\ stepStart[i].translation = anchor.translation
        /\ entities[i].velocity = Vec(0, 0, 0 - 5)

====
